---- MODULE Spec2Model ----
(***************************************************************************)
(* Chunked scraping of the xtractor backend: the /init and /batch handlers *)
(* of app/routes/scraper.py over the search_jobs and scraped_data tables.  *)
(* One action per HTTP handler; every outcome of a collaborator (browser   *)
(* session, page, database) is an input of the handler's action.           *)
(***************************************************************************)
EXTENDS Integers, Sequences, FiniteSets, TLC

VARIABLES jobs, records, call, scroll, detected, inflight, discovery

vars == <<jobs, records, call, scroll, detected, inflight, discovery>>

\* the variables of the models that stand beside the handlers of /init, /batch
\* and /sync-data: one run of scroll_results_panel, one call of
\* is_google_maps_search_url, the /batch calls in flight, one run of the
\* container loop of extract_businesses_with_names
aside == <<scroll, detected, inflight, discovery>>

(***************************************************************************)
(* Bounds of the model.                                                    *)
(***************************************************************************)
\* users that create jobs
MaxOwners == 1
\* rows of search_jobs
MaxJobs == 1
\* listings Discovery knows, and items held by search_jobs over all its rows
MaxItems == 2
\* rows of scraped_data
MaxRecords == 2
\* businesses in one /sync-data request
MaxSync == 2

None == "None"      \* Python's None for a text field or a response key
NoUrl == <<>>        \* a missing URL (None or ''): falsy, as in Python

Owners == 1..MaxOwners
\* the identities a request can carry: the owners and one user without jobs
Users == 1..(MaxOwners + 1)

(***************************************************************************)
(* URLs are sequences of tokens; Python's `pat in url` is a search for a   *)
(* contiguous run of tokens.                                               *)
(***************************************************************************)
InStr(pat, s) ==
    \E i \in 1..(Len(s) - Len(pat) + 1) : SubSeq(s, i, i + Len(pat) - 1) = pat

SearchUrl == <<"https://", "google.com", "/maps", "/search", "/cafes">>
PlainUrl == <<"https://", "example.org">>
Place(n) == <<"https://", "google.com", "/maps", "/place", n>>
ExtSite == <<"https://", "acme.example">>
MapsSite == <<"https://", "google.com", "/url">>

RequestUrls == {NoUrl, PlainUrl, SearchUrl}

\* what Discovery can list: no two listings share a URL
Listings == {[name |-> n, url |-> Place(n)] : n \in 1..MaxItems}

DistinctUrls(s) == \A i, j \in 1..Len(s) : i # j => s[i].url # s[j].url

SeqsUpTo(S, n) == UNION {[1..k -> S] : k \in 0..n}

Discoveries == {s \in SeqsUpTo(Listings, MaxItems) : DistinctUrls(s)}

\* what the page extractors would return on a listing page
NoPage == [phone |-> None, address |-> None, website |-> NoUrl]

Pages == {NoPage,
          [phone |-> "555-0100", address |-> "1 Main St", website |-> ExtSite],
          [phone |-> None, address |-> "1 Main St", website |-> MapsSite]}

(***************************************************************************)
(* is_google_maps_search_url, on the request URLs of the model.            *)
(***************************************************************************)
\* str.lower, token by token
Lower(token) ==
    CASE token = "GOOGLE.COM" -> "google.com"
      [] token = "/Starbucks" -> "/starbucks"
      [] OTHER -> token

url_lower(url) == [i \in 1..Len(url) |-> Lower(url[i])]

\* search_indicators = ['query=', 'q=', 'data=']
SearchIndicators == {"query=", "q=", "data="}

is_google_maps_search_url(url) ==
    IF url = NoUrl
    THEN FALSE
    ELSE \/ InStr(<<"google.com", "/maps", "/search">>, url_lower(url))
         \/ /\ InStr(<<"google.com", "/maps">>, url_lower(url))
            /\ \E ind \in SearchIndicators : InStr(<<ind>>, url_lower(url))

(***************************************************************************)
(* Sessions of one handler call, read off its trace of events.             *)
(***************************************************************************)
RECURSIVE CountOf(_, _)
CountOf(e, t) ==
    IF t = <<>> THEN 0
    ELSE (IF Head(t) = e THEN 1 ELSE 0) + CountOf(e, Tail(t))

RECURSIVE LiveAfter(_)
LiveAfter(t) ==
    IF t = <<>> THEN 0
    ELSE LET before == LiveAfter(SubSeq(t, 1, Len(t) - 1))
             e == t[Len(t)]
         IN  IF e = "setup_driver" THEN before + 1
             ELSE IF e = "quit" THEN (IF before > 0 THEN before - 1 ELSE 0)
             ELSE before

SessionsAcquired(t) == CountOf("setup_driver", t)

Pos(e, t) == IF \E i \in 1..Len(t) : t[i] = e
             THEN CHOOSE i \in 1..Len(t) : t[i] = e /\ \A k \in 1..(i - 1) : t[k] # e
             ELSE 0

(***************************************************************************)
(* ScrapedData: the scraped_data table, rows in insertion order.           *)
(***************************************************************************)
ProbeLimit == 1000

LastN(s, n) == IF Len(s) <= n THEN s ELSE SubSeq(s, Len(s) - n + 1, Len(s))

\* find_by_user_id: the newest `limit` rows of the user, [] when the read fails
find_by_user_id(rows, user_id, limit, readOk) ==
    IF readOk
    THEN LastN(SelectSeq(rows, LAMBDA r : r.user_id = user_id), limit)
    ELSE <<>>

\* check_existing_business: TRUE when a row of the result matches name and URL
check_existing_business(rows, user_id, company_name, website_url, readOk) ==
    LET existing_records == find_by_user_id(rows, user_id, ProbeLimit, readOk)
    IN  \E i \in 1..Len(existing_records) :
            /\ existing_records[i].company_name = company_name
            /\ existing_records[i].website_url = website_url

\* ScrapedData.create: a plain INSERT, no uniqueness constraint on the table
ScrapedData_create(rows, data) == Append(rows, data)

(***************************************************************************)
(* SearchJob: the search_jobs table; the id of a job is its position.      *)
(***************************************************************************)
SearchJob_create(table, data) ==
    Append(table, [user_id |-> data.user_id,
                   search_url |-> data.search_url,
                   status |-> "pending",
                   items |-> data.items,
                   total_items |-> data.total_items,
                   processed_items |-> 0])

SearchJob_find_by_id_AnyOwner(table, job_id, user_id, readOk) ==
    IF readOk /\ job_id \in DOMAIN table THEN <<table[job_id]>> ELSE <<>>

\* find_by_id: <<job>> when found, <<>> for Python's None (also on a failed read)
SearchJob_find_by_id(table, job_id, user_id, readOk) ==
    IF readOk /\ job_id \in DOMAIN table /\ table[job_id].user_id = user_id
    THEN <<table[job_id]>>
    ELSE <<>>

update_progress_Increment(table, job_id, processed_items, items, status) ==
    [table EXCEPT ![job_id] =
        [@ EXCEPT !.processed_items =
                      IF processed_items = @ THEN @ ELSE @ + 1,
                  !.items = items,
                  !.status = IF status # None THEN status ELSE @]]

update_progress_NoCounter(table, job_id, processed_items, items, status) ==
    [table EXCEPT ![job_id] =
        [@ EXCEPT !.items = items,
                  !.status = IF status # None THEN status ELSE @]]

update_progress_NoStatus(table, job_id, processed_items, items, status) ==
    [table EXCEPT ![job_id] =
        [@ EXCEPT !.processed_items = processed_items, !.items = items]]

\* update_progress: status is written only when one is passed
update_progress(table, job_id, processed_items, items, status) ==
    [table EXCEPT ![job_id] =
        [@ EXCEPT !.processed_items = processed_items,
                  !.items = items,
                  !.status = IF status # None THEN status ELSE @]]

(***************************************************************************)
(* The response and the events of the last handler call.                   *)
(***************************************************************************)
\* op, user_id, job_id: the request; code .. results: the JSON reply (None or
\* -1 for a key the reply lacks); target: target_idx + 1, 0 when none was
\* chosen; trace: the collaborator calls made, in order; page: what the page
\* extractors were given to find; disc: <<businesses_data>> once Discovery ran;
\* website: the value of `website` after STEP 1 of /batch
Response(op, user_id, job_id, code, completed, processed, total, results, target, trace, page) ==
    [op |-> op, user_id |-> user_id, job_id |-> job_id, code |-> code,
     completed |-> completed, processed |-> processed, total |-> total,
     results |-> results, target |-> target, trace |-> trace, page |-> page,
     disc |-> <<>>, website |-> NoUrl]

NoCall == Response("none", 0, 0, 0, None, -1, -1, <<>>, 0, <<>>, NoPage)

(***************************************************************************)
(* POST /init                                                              *)
(***************************************************************************)
PendingItems_Reversed(businesses_data) ==
    [i \in 1..Len(businesses_data) |->
        [name |-> businesses_data[Len(businesses_data) + 1 - i].name,
         url |-> businesses_data[Len(businesses_data) + 1 - i].url,
         status |-> "pending"]]

\* the items of a new job: one per business, in the order of the list
PendingItems(businesses_data) ==
    [i \in 1..Len(businesses_data) |->
        [name |-> businesses_data[i].name,
         url |-> businesses_data[i].url,
         status |-> "pending"]]

NoBusinesses_Never(businesses_data) == FALSE

\* `if not businesses_data`
NoBusinesses(businesses_data) == businesses_data = <<>>

init_search_job(user_id, url, driverOk, businesses_data, createOk) ==
    LET Reply(code, job_id, total, trace, disc, table) ==
            [jobs |-> table,
             call |-> [Response("init", user_id, job_id, code, None, -1, total,
                                <<>>, 0, trace, NoPage) EXCEPT !.disc = disc]]
    IN
    IF url = NoUrl \/ ~is_google_maps_search_url(url)
    THEN Reply(400, 0, -1, <<>>, <<>>, jobs)
    ELSE IF ~driverOk
    THEN Reply(500, 0, -1, <<"setup_driver_failed">>, <<>>, jobs)
    ELSE LET t1 == <<"setup_driver", "extract_businesses_with_names", "quit">>
             disc == <<businesses_data>>
         IN  IF NoBusinesses(businesses_data)
             THEN Reply(404, 0, -1, t1, disc, jobs)
             ELSE LET items == PendingItems(businesses_data)
                      job_data == [user_id |-> user_id, search_url |-> url,
                                   items |-> items, total_items |-> Len(items)]
                  IN  IF createOk
                      THEN Reply(201, Len(jobs) + 1, Len(items),
                                 t1 \o <<"SearchJob.create">>, disc,
                                 SearchJob_create(jobs, job_data))
                      ELSE Reply(500, 0, -1,
                                 t1 \o <<"SearchJob.create_failed", "quit">>,
                                 disc, jobs)

RECURSIVE ItemsHeld(_)
ItemsHeld(table) ==
    IF table = <<>> THEN 0 ELSE Len(Head(table).items) + ItemsHeld(Tail(table))

InitRuns(user_id) ==
    {init_search_job(user_id, url, driverOk, businesses_data, createOk) :
        url \in RequestUrls, driverOk \in BOOLEAN,
        businesses_data \in Discoveries, createOk \in BOOLEAN}

InitSearchJob ==
    \E user_id \in Owners :
        \E r \in InitRuns(user_id) :
            /\ Len(r.jobs) <= MaxJobs
            /\ ItemsHeld(r.jobs) <= MaxItems
            /\ jobs' = r.jobs
            /\ call' = r.call
            /\ UNCHANGED records
            /\ UNCHANGED aside

(***************************************************************************)
(* POST /batch                                                             *)
(***************************************************************************)
\* The extractor methods take (self, business_url); /batch calls them with
\* an extra driver= keyword.
ExtractorTakesDriver == FALSE

\* one extractor call of /batch inside its try/except: the value found, or
\* the initial None when the call raises
CallExtractor(found, initial) ==
    IF ExtractorTakesDriver THEN found ELSE initial

Navs == {"ok", "TimeoutException", "WebDriverException", "Exception"}

MapsStage_LooksUpWithoutSession(driverOk, nav, page) ==
    IF nav # "ok"
    THEN [trace |-> <<"setup_driver", "get_failed", "quit">>, page |-> NoPage,
          phone |-> None, address |-> None, website |-> NoUrl]
    ELSE [trace |-> IF driverOk
                    THEN <<"setup_driver", "get", "extract_phone",
                           "extract_address", "extract_website", "quit">>
                    ELSE <<"setup_driver_failed", "extract_phone",
                           "extract_address", "extract_website">>,
          page |-> page,
          phone |-> page.phone, address |-> page.address,
          website |-> page.website]

MapsStage_KeepsSession(driverOk, nav, page) ==
    IF ~driverOk
    THEN [trace |-> <<"setup_driver_failed">>, page |-> NoPage,
          phone |-> None, address |-> None, website |-> NoUrl]
    ELSE [trace |-> <<"setup_driver", "get", "extract_phone", "extract_address",
                      "extract_website">>,
          page |-> page,
          phone |-> page.phone, address |-> page.address, website |-> ExtSite]

MapsStage_AbortOnFailure(driverOk, nav, page) ==
    IF ~driverOk
    THEN [trace |-> <<"setup_driver_failed">>, page |-> NoPage,
          phone |-> None, address |-> None, website |-> NoUrl]
    ELSE IF nav # "ok"
    THEN [trace |-> <<"setup_driver", "get_failed", "quit">>, page |-> NoPage,
          phone |-> None, address |-> None, website |-> NoUrl]
    ELSE IF ~ExtractorTakesDriver
    THEN [trace |-> <<"setup_driver", "get", "extract_phone", "quit">>,
          page |-> page,
          phone |-> None, address |-> None, website |-> NoUrl]
    ELSE [trace |-> <<"setup_driver", "get", "extract_phone", "extract_address",
                      "extract_website", "quit">>,
          page |-> page,
          phone |-> page.phone, address |-> page.address,
          website |-> page.website]

MapsStage_NoQuit(driverOk, nav, page) ==
    IF ~driverOk
    THEN [trace |-> <<"setup_driver_failed">>, page |-> NoPage,
          phone |-> None, address |-> None, website |-> NoUrl]
    ELSE IF nav # "ok"
    THEN [trace |-> <<"setup_driver", "get_failed">>, page |-> NoPage,
          phone |-> None, address |-> None, website |-> NoUrl]
    ELSE [trace |-> <<"setup_driver", "get", "extract_phone", "extract_address",
                      "extract_website", "quit">>,
          page |-> page,
          phone |-> CallExtractor(page.phone, None),
          address |-> CallExtractor(page.address, None),
          website |-> CallExtractor(page.website, NoUrl)]

\* STEP 1: the Google Maps page of the item
MapsStage(driverOk, nav, page) ==
    IF ~driverOk
    THEN [trace |-> <<"setup_driver_failed">>, page |-> NoPage,
          phone |-> None, address |-> None, website |-> NoUrl]
    ELSE IF nav # "ok"
    THEN [trace |-> <<"setup_driver", "get_failed", "quit">>, page |-> NoPage,
          phone |-> None, address |-> None, website |-> NoUrl]
    ELSE [trace |-> <<"setup_driver", "get", "extract_phone", "extract_address",
                      "extract_website", "quit">>,
          page |-> page,
          phone |-> CallExtractor(page.phone, None),
          address |-> CallExtractor(page.address, None),
          website |-> CallExtractor(page.website, NoUrl)]

MapsStageRuns ==
    {MapsStage(d, n, p) : d \in BOOLEAN, n \in Navs, p \in Pages}

Emails == {None, "info@acme.example"}

EmailStageStarts_Always(skip_email, website) == TRUE

EmailStageStarts(skip_email, website) ==
    /\ ~skip_email
    /\ website # NoUrl
    /\ ~InStr(<<"google.com">>, website)
    /\ ~InStr(<<"goo.gl">>, website)

EmailStage_ReusesSession(skip_email, website, driverOk, found) ==
    [trace |-> <<"extract_email", "quit">>, email |-> found]

\* STEP 2: the business website
EmailStage(skip_email, website, driverOk, found) ==
    IF ~EmailStageStarts(skip_email, website)
    THEN [trace |-> <<>>, email |-> None]
    ELSE IF ~driverOk
    THEN [trace |-> <<"setup_driver_failed">>, email |-> None]
    ELSE [trace |-> <<"setup_driver", "extract_email", "quit">>,
          email |-> CallExtractor(found, None)]

EmailStageRuns(skip_email, website) ==
    {EmailStage(skip_email, website, d, e) : d \in BOOLEAN, e \in Emails}

FirstPending_RetryFailed(items) ==
    IF \E i \in 1..Len(items) : items[i].status # "completed"
    THEN CHOOSE i \in 1..Len(items) :
            /\ items[i].status # "completed"
            /\ \A k \in 1..(i - 1) : items[k].status = "completed"
    ELSE 0

FirstPending_Last(items) ==
    IF \E i \in 1..Len(items) : items[i].status = "pending"
    THEN CHOOSE i \in 1..Len(items) :
            /\ items[i].status = "pending"
            /\ \A k \in (i + 1)..Len(items) : items[k].status # "pending"
    ELSE 0

\* the scan for the next pending item: target_idx + 1, 0 for None
FirstPending(items) ==
    IF \E i \in 1..Len(items) : items[i].status = "pending"
    THEN CHOOSE i \in 1..Len(items) :
            /\ items[i].status = "pending"
            /\ \A k \in 1..(i - 1) : items[k].status # "pending"
    ELSE 0

SetStatus_All(items, idx, status) ==
    [i \in 1..Len(items) |-> [items[i] EXCEPT !.status = status]]

SetStatus(items, idx, status) == [items EXCEPT ![idx].status = status]

\* the job-progress write of the success path and the retry of the handler
\* of the outer except
UpdateOutcomes == {"ok", "raise_then_ok", "raise_then_raise"}

ShouldCreate_Never(existing) == FALSE

ShouldCreate_Always(existing) == TRUE

\* `if not existing`: the INSERT is attempted only when the probe found no row
ShouldCreate(existing) == ~existing

\* the counter written by the success path
NewProcessedCount(job) == job.processed_items + 1

\* the status written by the success path
ProgressStatus(new_processed_count, job) ==
    IF new_processed_count >= job.total_items THEN "completed" ELSE "active"

FailedProcessedCount_Stale(job) == job.processed_items

\* the counter and the status written by the handler of the outer except:
\* update_progress is called there without a status
FailedProcessedCount(job) == job.processed_items + 1
FailedStatus(job) == None

\* `final_website`: the website found, unless it points into google.com
FinalWebsite(website) ==
    IF website # NoUrl /\ ~InStr(<<"google.com">>, website) THEN website
    ELSE NoUrl

\* the dict `business_data` built from the item and the fields of the stages
BusinessData(user_id, job, target_item, maps, mail) ==
    [company_name |-> target_item.name,
     website_url |-> IF FinalWebsite(maps.website) # NoUrl
                     THEN FinalWebsite(maps.website)
                     ELSE target_item.url,
     source_url |-> job.search_url,
     address |-> maps.address,
     phone |-> maps.phone,
     email |-> mail.email,
     user_id |-> user_id]

\* the part of process_batch after the job is loaded and a target is found
process_target(user_id, job_id, job, target_idx, maps, mail, probeOk, createOk, upd) ==
    LET items == job.items
        target_item == items[target_idx]
        business_data == BusinessData(user_id, job, target_item, maps, mail)
        existing == check_existing_business(records, user_id,
                        business_data.company_name, business_data.website_url,
                        probeOk)
        saved == ShouldCreate(existing) /\ createOk
        rows == IF saved THEN ScrapedData_create(records, business_data)
                ELSE records
        t_db == (IF probeOk THEN <<"check_existing_business">>
                 ELSE <<"check_existing_business", "find_by_user_id_failed">>) \o
                (IF ~ShouldCreate(existing) THEN <<>>
                 ELSE IF createOk THEN <<"ScrapedData.create">>
                 ELSE <<"ScrapedData.create_failed">>)
        done == SetStatus(items, target_idx, "completed")
        new_processed_count == NewProcessedCount(job)
        status == ProgressStatus(new_processed_count, job)
        failed == SetStatus(done, target_idx, "failed")
        t0 == <<"find_by_id">> \o maps.trace \o mail.trace \o t_db
        Reply(r) == [r EXCEPT !.website = maps.website]
    IN
    IF upd = "ok"
    THEN [jobs |-> update_progress(jobs, job_id, new_processed_count, done, status),
          records |-> rows,
          call |-> Reply(Response("batch", user_id, job_id, 200,
                            IF status = "completed" THEN "True" ELSE "False",
                            new_processed_count, job.total_items,
                            <<business_data>>, target_idx,
                            t0 \o <<"update_progress">>, maps.page))]
    ELSE IF upd = "raise_then_ok"
    THEN [jobs |-> update_progress(jobs, job_id, FailedProcessedCount(job),
                                   failed, FailedStatus(job)),
          records |-> rows,
          call |-> Reply(Response("batch", user_id, job_id, 500, None, -1, -1, <<>>,
                            target_idx,
                            t0 \o <<"update_progress_failed", "update_progress">>,
                            maps.page))]
    ELSE [jobs |-> jobs,
          records |-> rows,
          call |-> Reply(Response("batch", user_id, job_id, 500, None, -1, -1, <<>>,
                            target_idx,
                            t0 \o <<"update_progress_failed",
                                    "update_progress_failed">>,
                            maps.page))]

AlreadyCompleted_Never(job) == FALSE

\* `if job['status'] == 'completed'`
AlreadyCompleted(job) == job.status = "completed"

CompleteJob_CountsAgain(table, job_id, job) ==
    update_progress(table, job_id, job.processed_items + 1, job.items,
                    "completed")

\* no pending item is left: the job is written back as it was read, with
\* status 'completed'
CompleteJob(table, job_id, job) ==
    update_progress(table, job_id, job.processed_items, job.items, "completed")

\* the part of process_batch up to the choice of the target
process_head(user_id, job_id, findOk, updOk) ==
    LET found == SearchJob_find_by_id(jobs, job_id, user_id, findOk)
        Reply(code, completed, trace, table) ==
            [jobs |-> table, records |-> records,
             call |-> Response("batch", user_id, job_id, code, completed,
                               -1, -1, <<>>, 0, trace, NoPage)]
    IN
    IF job_id = 0
    THEN Reply(400, None, <<>>, jobs)
    ELSE IF found = <<>>
    THEN Reply(404, None,
               IF findOk THEN <<"find_by_id">> ELSE <<"find_by_id_failed">>,
               jobs)
    ELSE LET job == found[1]
         IN  IF AlreadyCompleted(job)
             THEN Reply(200, "True", <<"find_by_id">>, jobs)
             ELSE IF updOk
             THEN Reply(200, "True", <<"find_by_id", "update_progress">>,
                        CompleteJob(jobs, job_id, job))
             ELSE Reply(500, None, <<"find_by_id", "update_progress_failed">>,
                        jobs)

HasTarget(user_id, job_id, findOk) ==
    LET found == SearchJob_find_by_id(jobs, job_id, user_id, findOk)
    IN  /\ job_id # 0
        /\ found # <<>>
        /\ ~AlreadyCompleted(found[1])
        /\ FirstPending(found[1].items) # 0

HeadRuns(user_id, job_id) ==
    {process_head(user_id, job_id, findOk, updOk) :
        findOk \in {f \in BOOLEAN : ~HasTarget(user_id, job_id, f)},
        updOk \in BOOLEAN}

ProcessBatchNoTarget ==
    \E user_id \in Users, job_id \in 0..MaxJobs :
        \E r \in HeadRuns(user_id, job_id) :
            /\ jobs' = r.jobs
            /\ records' = r.records
            /\ call' = r.call
            /\ UNCHANGED aside

TargetRuns(user_id, job_id) ==
    LET job == jobs[job_id]
    IN  UNION {
          {process_target(user_id, job_id, job, FirstPending(job.items),
                          maps, mail, probeOk, createOk, upd) :
              mail \in UNION {EmailStageRuns(skip_email, maps.website) :
                                  skip_email \in BOOLEAN},
              probeOk \in BOOLEAN, createOk \in BOOLEAN,
              upd \in UpdateOutcomes} :
          maps \in MapsStageRuns}

ProcessBatchTarget ==
    \E user_id \in Users, job_id \in 1..MaxJobs :
        /\ HasTarget(user_id, job_id, TRUE)
        /\ \E r \in TargetRuns(user_id, job_id) :
            /\ Len(r.records) <= MaxRecords
            /\ jobs' = r.jobs
            /\ records' = r.records
            /\ call' = r.call
            /\ UNCHANGED aside

(***************************************************************************)
(* POST /sync-data: records written outside any job                        *)
(***************************************************************************)
\* the businesses a client submits: the first listing, as /batch would key it
SyncEntries ==
    {[company_name |-> 1, website_url |-> Place(1), email |-> None,
      phone |-> "N/A", address |-> "Not found"]}

Blank(v) == IF v \in {"N/A", "Not found", None} THEN None ELSE v

\* the loop of sync_local_data from business k on; env[k] tells whether the
\* probe's read and the INSERT of business k are served
RECURSIVE sync_loop(_, _, _, _, _, _)
sync_loop(user_id, businesses, env, k, rows, acc) ==
    IF k > Len(businesses)
    THEN [records |-> rows, saved_count |-> acc.saved_count,
          errors |-> acc.errors, trace |-> acc.trace]
    ELSE LET business == businesses[k]
             existing == check_existing_business(rows, user_id,
                             business.company_name, business.website_url,
                             env[k].probeOk)
             document_data ==
                 [company_name |-> business.company_name,
                  website_url |-> business.website_url,
                  source_url |-> NoUrl,
                  address |-> Blank(business.address),
                  phone |-> Blank(business.phone),
                  email |-> Blank(business.email),
                  user_id |-> user_id]
         IN  IF existing
             THEN sync_loop(user_id, businesses, env, k + 1, rows,
                      [acc EXCEPT !.trace = @ \o <<"check_existing_business">>])
             ELSE IF env[k].createOk
             THEN sync_loop(user_id, businesses, env, k + 1,
                      ScrapedData_create(rows, document_data),
                      [acc EXCEPT !.saved_count = @ + 1,
                                  !.trace = @ \o <<"check_existing_business",
                                                   "ScrapedData.create">>])
             ELSE sync_loop(user_id, businesses, env, k + 1, rows,
                      [acc EXCEPT !.errors = @ + 1,
                                  !.trace = @ \o <<"check_existing_business",
                                                   "ScrapedData.create_failed">>])

sync_local_data(user_id, businesses, env) ==
    IF businesses = <<>>
    THEN [records |-> records,
          call |-> Response("sync", user_id, 0, 400, None, -1, -1, <<>>, 0,
                            <<>>, NoPage)]
    ELSE LET r == sync_loop(user_id, businesses, env, 1, records,
                            [saved_count |-> 0, errors |-> 0, trace |-> <<>>])
         IN  [records |-> r.records,
              call |-> Response("sync", user_id, 0, 200, None, r.saved_count,
                                Len(businesses), <<>>, 0, r.trace, NoPage)]

StoreEnvs == [probeOk : BOOLEAN, createOk : BOOLEAN]

SyncRuns(user_id) ==
    UNION {{sync_local_data(user_id, businesses, env) :
                businesses \in [1..n -> SyncEntries], env \in [1..n -> StoreEnvs]} :
           n \in 0..MaxSync}

SyncLocalData ==
    \E user_id \in Owners :
        \E r \in SyncRuns(user_id) :
            /\ Len(r.records) <= MaxRecords
            /\ records' = r.records
            /\ call' = r.call
            /\ UNCHANGED jobs
            /\ UNCHANGED aside

\* no run of scroll_results_panel, no call of is_google_maps_search_url, no
\* /batch call in flight, no run of extract_businesses_with_names
NoScroll == [pc |-> "none"]
NoDetection == [pc |-> "none"]
NoFlights == <<>>
NoDiscovery == [pc |-> "none"]

Init ==
    /\ jobs = <<>>
    /\ records = <<>>
    /\ call = NoCall
    /\ scroll = NoScroll
    /\ detected = NoDetection
    /\ inflight = NoFlights
    /\ discovery = NoDiscovery

Next ==
    \/ InitSearchJob
    \/ ProcessBatchNoTarget
    \/ ProcessBatchTarget
    \/ SyncLocalData

Spec == Init /\ [][Next]_vars

(***************************************************************************)
(* A caller that keeps polling a job while the stores come to serve its    *)
(* reads and writes: a /batch call of the owner of job j whose reads of    *)
(* both tables and whose write of the job are served is taken again and    *)
(* again for as long as it would change the state.                         *)
(***************************************************************************)
\* the job table after a served call, whatever the browser and the INSERT do
ServedJobs(j) ==
    LET job == jobs[j]
    IN  IF HasTarget(job.user_id, j, TRUE)
        THEN process_target(job.user_id, j, job, FirstPending(job.items),
                            MapsStage(FALSE, "ok", NoPage),
                            EmailStage(TRUE, NoUrl, TRUE, None),
                            TRUE, FALSE, "ok").jobs
        ELSE process_head(job.user_id, j, TRUE, TRUE).jobs

ServedBatch(j) ==
    /\ j \in DOMAIN jobs
    /\ UNCHANGED aside
    /\ jobs' = ServedJobs(j)
    /\ IF HasTarget(jobs[j].user_id, j, TRUE)
       THEN \E maps \in MapsStageRuns :
              \E mail \in EmailStageRuns(FALSE, maps.website) :
                \E createOk \in BOOLEAN :
                  LET r == process_target(jobs[j].user_id, j, jobs[j],
                                          FirstPending(jobs[j].items),
                                          maps, mail, TRUE, createOk, "ok")
                  IN  /\ Len(r.records) <= MaxRecords
                      /\ records' = r.records
                      /\ call' = r.call
       ELSE LET r == process_head(jobs[j].user_id, j, TRUE, TRUE)
            IN  /\ records' = r.records
                /\ call' = r.call

LiveSpec == Spec /\ \A j \in 1..MaxJobs : WF_vars(ServedBatch(j))

(***************************************************************************)
(* scroll_results_panel: one run, a step per loop iteration.  The listing  *)
(* count each iteration observes and the outcome of each execute_script    *)
(* are inputs of the step.                                                 *)
(***************************************************************************)
\* the largest max_scrolls of a run
MaxScrolls == 4
\* the largest listing count a run observes
MaxCount == 2

\* find_elements raised: the loop takes previous_count for current_count
CountError == -1

\* the locals of scroll_results_panel at its entry
ScrollEntry(max_scrolls) ==
    [pc |-> "locate", max_scrolls |-> max_scrolls, panel |-> FALSE,
     previous_count |-> 0, consecutive_no_change |-> 0, scroll_attempt |-> 0,
     executed |-> 0, seen |-> <<>>, clean |-> TRUE]

\* the wait for the page and the search for the panel element
scroll_locate(s, outcome) ==
    IF outcome = "found"
    THEN [s EXCEPT !.pc = "loop", !.panel = TRUE]
    ELSE [s EXCEPT !.pc = "done", !.clean = FALSE]

\* `if consecutive_no_change >= 3`
StopAfter == 3

scroll_iteration_NoAdvance(s, observed, script) ==
    [s EXCEPT !.seen = <<observed>>,
              !.executed = IF script = "ok" THEN @ + 1 ELSE @]

\* one iteration of `while scroll_attempt < max_scrolls`
scroll_iteration(s, observed, script) ==
    LET current_count == IF observed = CountError THEN s.previous_count
                         ELSE observed
        same == current_count = s.previous_count
        no_change == IF same THEN s.consecutive_no_change + 1 ELSE 0
        counted == [s EXCEPT !.seen = Append(@, observed),
                             !.clean = @ /\ observed # CountError,
                             !.consecutive_no_change = no_change,
                             !.previous_count = current_count]
    IN  IF same /\ no_change >= StopAfter
        THEN [counted EXCEPT !.pc = "done"]
        ELSE IF script = "ok"
        THEN [counted EXCEPT !.executed = @ + 1, !.scroll_attempt = @ + 1]
        ELSE [counted EXCEPT !.executed = @ + 1, !.clean = FALSE,
                             !.pc = "done"]

ScrollLocate ==
    /\ scroll.pc = "locate"
    /\ \E outcome \in {"found", "not_found", "TimeoutException"} :
          scroll' = scroll_locate(scroll, outcome)
    /\ UNCHANGED <<jobs, records, call, detected, inflight, discovery>>

ScrollIterate ==
    /\ scroll.pc = "loop"
    /\ scroll.scroll_attempt < scroll.max_scrolls
    /\ \E observed \in {CountError} \cup (0..MaxCount),
          script \in {"ok", "WebDriverException"} :
          scroll' = scroll_iteration(scroll, observed, script)
    /\ UNCHANGED <<jobs, records, call, detected, inflight, discovery>>

\* the loop condition fails: the function returns
ScrollReturn ==
    /\ scroll.pc = "loop"
    /\ scroll.scroll_attempt >= scroll.max_scrolls
    /\ scroll' = [scroll EXCEPT !.pc = "done"]
    /\ UNCHANGED <<jobs, records, call, detected, inflight, discovery>>

ScrollInit ==
    /\ jobs = <<>>
    /\ records = <<>>
    /\ call = NoCall
    /\ scroll \in {ScrollEntry(max_scrolls) : max_scrolls \in 0..MaxScrolls}
    /\ detected = NoDetection
    /\ inflight = NoFlights
    /\ discovery = NoDiscovery

ScrollNext == ScrollLocate \/ ScrollIterate \/ ScrollReturn

ScrollSpec == ScrollInit /\ [][ScrollNext]_vars

\* the call of scroll_results_panel keeps running: every wait in it is
\* bounded (WebDriverWait 15 s, time.sleep) and find_elements and
\* execute_script return or raise
ScrollLiveSpec == ScrollSpec /\ WF_vars(ScrollNext)

(***************************************************************************)
(* is_google_maps_search_url on URLs of every kind: one call per run.      *)
(***************************************************************************)
\* scheme, optional www., host, path, and what follows the path
UrlHosts == {"google.com", "GOOGLE.COM", "example.com"}
UrlPaths == {<<>>, <<"/maps">>, <<"/maps", "/search", "/cafes">>,
             <<"/maps", "/place", "/Starbucks">>}
UrlTails == {<<>>, <<"?", "q=", "coffee">>, <<"?", "query=", "coffee">>,
             <<"/", "data=", "!4m5!3m4">>, <<"/@32.7767,-96.7970,17z">>}

Urls ==
    {NoUrl} \cup
    {<<"https://">> \o www \o <<host>> \o path \o tail :
        www \in {<<>>, <<"www.">>}, host \in UrlHosts,
        path \in UrlPaths, tail \in UrlTails}

UrlDetect ==
    /\ detected.pc = "input"
    /\ detected' = [detected EXCEPT
                        !.pc = "done",
                        !.result = is_google_maps_search_url(detected.url)]
    /\ UNCHANGED <<jobs, records, call, scroll, inflight, discovery>>

UrlInit ==
    /\ jobs = <<>>
    /\ records = <<>>
    /\ call = NoCall
    /\ scroll = NoScroll
    /\ detected \in {[pc |-> "input", url |-> url, result |-> FALSE] :
                        url \in Urls}
    /\ inflight = NoFlights
    /\ discovery = NoDiscovery

UrlNext == UrlDetect

UrlSpec == UrlInit /\ [][UrlNext]_vars

(***************************************************************************)
(* Vocabulary of the properties.                                           *)
(***************************************************************************)
\* the position of the first pending item, 0 when no item is pending
LeastPending(items) ==
    LET P == {i \in 1..Len(items) : items[i].status = "pending"}
    IN  IF P = {} THEN 0 ELSE CHOOSE i \in P : \A k \in P : i <= k

NonPending(items) ==
    Cardinality({i \in 1..Len(items) : items[i].status # "pending"})

\* the step is a /batch call on job j made by the owner of j
OwnerCall(j) ==
    /\ call'.op = "batch"
    /\ call'.job_id = j
    /\ call'.user_id = jobs[j].user_id

JobWrites(t) == CountOf("update_progress", t) + CountOf("SearchJob.create", t)

Extractions(t) ==
    CountOf("extract_phone", t) + CountOf("extract_address", t)
    + CountOf("extract_website", t) + CountOf("extract_email", t)

\* rows of the table with the identity key (owner, name, locator)
KeyRows(rows, user_id, name, url) ==
    {i \in 1..Len(rows) : /\ rows[i].user_id = user_id
                          /\ rows[i].company_name = name
                          /\ rows[i].website_url = url}

\* C1: in every persisted state of every job, processed_items equals the
\* number of items whose status is not pending; /batch leaves no other state,
\* whether it completed an item, found it already saved, marked it failed or
\* returned an error.
C1_ProcessedCountsNonPending ==
    \A j \in DOMAIN jobs :
        jobs[j].processed_items = NonPending(jobs[j].items)

\* a /batch call has marked an item failed next to a completed one
C1_Witness ==
    /\ call.op = "batch"
    /\ call.code = 500
    /\ \E j \in DOMAIN jobs :
        /\ \E i \in 1..Len(jobs[j].items) : jobs[j].items[i].status = "failed"
        /\ \E i \in 1..Len(jobs[j].items) : jobs[j].items[i].status = "completed"

\* C2: in every persisted state of a job, status is completed if and only if
\* processed_items equals total_items, also after a /batch call that marked
\* the last pending item failed.
C2_CompletedIffAllProcessed ==
    \A j \in DOMAIN jobs :
        (jobs[j].status = "completed")
            <=> (jobs[j].processed_items = jobs[j].total_items)

\* C3 as stated: once a job is completed, every further /batch call of its
\* owner on it returns completed = true, changes no job, item or record, writes
\* nothing to the job store and acquires no session.
C3_CompletedCallReturnsCompleted ==
    [][\A j \in DOMAIN jobs :
        (jobs[j].status = "completed" /\ OwnerCall(j))
            => /\ call'.code = 200
               /\ call'.completed = "True"
               /\ jobs' = jobs
               /\ records' = records
               /\ JobWrites(call'.trace) = 0
               /\ SessionsAcquired(call'.trace) = 0]_vars

\* C3, amended: once a job is completed, every further /batch call on it
\* changes no job, item or record, writes nothing to the job store and acquires
\* no session; it returns completed = true when its read of the job is served,
\* and job-not-found when that read fails.
C3_CompletedCallIsNoOp ==
    [][\A j \in DOMAIN jobs :
        (jobs[j].status = "completed" /\ OwnerCall(j))
            => /\ jobs' = jobs
               /\ records' = records
               /\ JobWrites(call'.trace) = 0
               /\ SessionsAcquired(call'.trace) = 0
               /\ \/ call'.code = 200 /\ call'.completed = "True"
                  \/ /\ call'.code = 404
                     /\ call'.trace = <<"find_by_id_failed">>]_vars

\* a completed job has been polled again and answered completed = true
C3_Witness ==
    /\ call.op = "batch"
    /\ call.code = 200
    /\ call.completed = "True"
    /\ call.trace = <<"find_by_id">>
    /\ call.job_id \in DOMAIN jobs
    /\ jobs[call.job_id].status = "completed"

\* C4 as stated, call by call: each /batch call of the owner on a job whose
\* first pending item is item k targets item k and leaves it non-pending, so
\* that the next call targets item k+1; the call on the last item answers
\* completed = true.
C4_EveryCallAdvancesInOrder ==
    [][\A j \in DOMAIN jobs :
        LET k == LeastPending(jobs[j].items)
        IN  (jobs[j].status # "completed" /\ k # 0 /\ OwnerCall(j))
                => /\ call'.target = k
                   /\ jobs'[j].items[k].status # "pending"
                   /\ (k = jobs[j].total_items => call'.completed = "True")]_vars

\* C4, amended: a /batch call that selects a target selects the first item
\* still pending, which is item processed_items + 1; when the call returns
\* success that item is completed and every later item is still pending, so N
\* calls that each return success target i1, ..., iN in order, and the one on
\* iN answers completed = true.
C4_SuccessfulCallsAdvanceInOrder ==
    [][\A j \in DOMAIN jobs :
        LET k == LeastPending(jobs[j].items)
        IN  (OwnerCall(j) /\ call'.target # 0)
                => /\ call'.target = k
                   /\ k = jobs[j].processed_items + 1
                   /\ call'.code = 200
                        => /\ jobs'[j].items[k].status = "completed"
                           /\ LeastPending(jobs'[j].items)
                                = (IF k < jobs[j].total_items THEN k + 1 ELSE 0)
                           /\ call'.processed = k
                           /\ (call'.completed = "True")
                                <=> (k = jobs[j].total_items)]_vars

\* the second item of a job has been processed after the first, and the call
\* answered completed = true
C4_Witness ==
    /\ call.op = "batch"
    /\ call.code = 200
    /\ call.target = 2
    /\ call.completed = "True"
    /\ jobs[call.job_id].items[1].status = "completed"
    /\ jobs[call.job_id].items[2].status = "completed"

\* C5: when a record with the key (owner, name, locator) of the first pending
\* item already exists, a /batch call on the job adds no second record with
\* that key, and a call that returns success has marked the item completed.
C5_NoSecondRecordForExistingKey ==
    [][\A j \in DOMAIN jobs :
        LET k == LeastPending(jobs[j].items)
        IN  (jobs[j].status # "completed" /\ k # 0 /\ OwnerCall(j)
             /\ KeyRows(records, jobs[j].user_id, jobs[j].items[k].name,
                        jobs[j].items[k].url) # {})
                => /\ Cardinality(KeyRows(records', jobs[j].user_id,
                            jobs[j].items[k].name, jobs[j].items[k].url))
                      = Cardinality(KeyRows(records, jobs[j].user_id,
                            jobs[j].items[k].name, jobs[j].items[k].url))
                   /\ call'.code = 200
                        => jobs'[j].items[k].status = "completed"]_vars

ProbeAfterStages(t) ==
    LET p == Pos("check_existing_business", t)
    IN  /\ p # 0
        /\ CountOf("check_existing_business", t) = 1
        /\ \E i \in 1..(p - 1) : t[i] \in {"setup_driver", "setup_driver_failed"}
        /\ \A i \in (p + 1)..Len(t) :
              t[i] \notin {"setup_driver", "setup_driver_failed", "get",
                           "get_failed", "extract_phone", "extract_address",
                           "extract_website", "extract_email", "quit"}

C7_EmptyDiscoveryCreatesNoJob ==
    [][(call'.op = "init" /\ call'.disc = <<<<>>>>)
        => /\ call'.code = 404
           /\ jobs' = jobs
           /\ JobWrites(call'.trace) = 0
           /\ CountOf("SearchJob.create_failed", call'.trace) = 0
           /\ SessionsAcquired(call'.trace) = 1
           /\ LiveAfter(call'.trace) = 0]_vars

\* /init has answered 404 after an empty discovery, next to an earlier job
C7_Witness ==
    /\ call.op = "init"
    /\ call.code = 404
    /\ call.disc = <<<<>>>>
    /\ Len(jobs) = 1

\* C8: when Discovery returns a non-empty list, /init either writes the job
\* store exactly once, adding one job whose items are the discovered entries
\* in discovery order, all pending, with status pending, processed_items 0 and
\* total_items the number of items, or fails without any job store write; an
\* /init call that does not answer 201 leaves the persisted jobs unchanged.
C8_InitCreatesOnePendingJob ==
    [][(call'.op = "init")
        => /\ (call'.disc # <<>> /\ call'.disc # <<<<>>>>)
                => \/ /\ call'.code = 201
                      /\ JobWrites(call'.trace) = 1
                      /\ call'.job_id = Len(jobs) + 1
                      /\ call'.total = Len(call'.disc[1])
                      /\ jobs' = Append(jobs,
                            [user_id |-> call'.user_id,
                             search_url |-> SearchUrl,
                             status |-> "pending",
                             items |-> [i \in 1..Len(call'.disc[1]) |->
                                          [name |-> call'.disc[1][i].name,
                                           url |-> call'.disc[1][i].url,
                                           status |-> "pending"]],
                             total_items |-> Len(call'.disc[1]),
                             processed_items |-> 0])
                   \/ /\ call'.code = 500
                      /\ JobWrites(call'.trace) = 0
                      /\ CountOf("SearchJob.create_failed", call'.trace) = 1
                      /\ jobs' = jobs
           /\ call'.code # 201
                => jobs' = jobs /\ JobWrites(call'.trace) = 0]_vars

\* /init has created a job of two items
C8_Witness ==
    /\ call.op = "init"
    /\ call.code = 201
    /\ call.total = 2
    /\ Len(jobs[call.job_id].items) = 2

\* C10: when the listing-page session was acquired, the page loaded and the
\* page extractor finds a phone, an address or a website at the item's
\* locator, the record inserted by that /batch call carries the value.
C10_FoundFieldsAreStored ==
    [][(call'.op = "batch" /\ call'.target # 0
        /\ CountOf("get", call'.trace) = 1
        /\ CountOf("ScrapedData.create", call'.trace) = 1)
        => LET r == records'[Len(records')]
           IN  /\ call'.page.phone # None => r.phone = call'.page.phone
               /\ call'.page.address # None => r.address = call'.page.address
               /\ (call'.page.website # NoUrl
                   /\ ~InStr(<<"google.com">>, call'.page.website))
                    => r.website_url = call'.page.website]_vars

\* C11: when the INSERT of the record fails during a /batch call, the target
\* item is marked failed, processed_items advances by one and the call
\* answers with an error.
C11_StoreFailureFailsItem ==
    [][(call'.op = "batch" /\ call'.target # 0
        /\ CountOf("ScrapedData.create_failed", call'.trace) = 1)
        => /\ jobs'[call'.job_id].items[call'.target].status = "failed"
           /\ jobs'[call'.job_id].processed_items
                = jobs[call'.job_id].processed_items + 1
           /\ call'.code = 500]_vars

\* C12: an item that is completed or failed keeps its status in every later
\* step and is never the target of a /batch call again; the target of a call
\* is a pending item with no pending item before it, so after a call marked
\* item k failed the next call targets the first pending item after k.
C12_TerminalItemsStayTerminal ==
    [][\A j \in DOMAIN jobs :
        /\ \A i \in 1..Len(jobs[j].items) :
              jobs[j].items[i].status # "pending"
                => /\ jobs'[j].items[i] = jobs[j].items[i]
                   /\ (call'.op = "batch" /\ call'.job_id = j)
                        => call'.target # i
        /\ (call'.op = "batch" /\ call'.job_id = j /\ call'.target # 0)
            => /\ jobs[j].items[call'.target].status = "pending"
               /\ \A i \in 1..(call'.target - 1) :
                     jobs[j].items[i].status # "pending"]_vars

\* the first item of a job was marked failed and a later call targeted the
\* second item, leaving the first as it was
C12_Witness ==
    /\ call.op = "batch"
    /\ call.target = 2
    /\ call.code = 200
    /\ jobs[call.job_id].items[1].status = "failed"
    /\ jobs[call.job_id].items[2].status = "completed"

\* C13: a /batch call that names a job id which is not in the table, or a job
\* of another user, answers 404 (job not found) right after its one read of
\* the job: it changes no job, item or record, writes nothing to the job store,
\* chooses no target and acquires no session.
C13_ForeignOrMissingJobIsNotFound ==
    [][(/\ call'.op = "batch"
        /\ call'.job_id # 0
        /\ \/ call'.job_id \notin DOMAIN jobs
           \/ jobs[call'.job_id].user_id # call'.user_id)
        => /\ call'.code = 404
           /\ call'.trace \in {<<"find_by_id">>, <<"find_by_id_failed">>}
           /\ call'.target = 0
           /\ jobs' = jobs
           /\ records' = records
           /\ JobWrites(call'.trace) = 0
           /\ SessionsAcquired(call'.trace) = 0]_vars

\* a user polled another user's job, which still has a pending item, and was
\* answered 404
C13_Witness ==
    /\ call.op = "batch"
    /\ call.code = 404
    /\ call.trace = <<"find_by_id">>
    /\ call.job_id \in DOMAIN jobs
    /\ jobs[call.job_id].user_id # call.user_id
    /\ LeastPending(jobs[call.job_id].items) # 0

\* the items, over all jobs, whose persisted status the step changes
StatusChanges ==
    UNION {{<<j, i>> : i \in {n \in 1..Len(jobs[j].items) :
                                jobs'[j].items[n].status # jobs[j].items[n].status}} :
           j \in DOMAIN jobs}

\* C14: a step changes the persisted status of at most one item; a /batch
\* call of the owner on a job with a pending item whose write to the job
\* store is served changes exactly one, the first pending item, from pending
\* to completed or failed, and adds exactly 1 to processed_items.
C14_OneItemPerCall ==
    [][/\ Cardinality(StatusChanges) <= 1
       /\ \A j \in DOMAIN jobs :
            LET k == LeastPending(jobs[j].items)
            IN  (/\ OwnerCall(j)
                 /\ jobs[j].status # "completed"
                 /\ k # 0
                 /\ CountOf("update_progress", call'.trace) >= 1)
                    => /\ StatusChanges = {<<j, k>>}
                       /\ jobs'[j].items[k].status \in {"completed", "failed"}
                       /\ jobs'[j].processed_items
                            = jobs[j].processed_items + 1]_vars

\* a call marked the first item of a job failed, by the retried write of the
\* job store, and left the second item pending
C14_Witness ==
    /\ call.op = "batch"
    /\ call.code = 500
    /\ call.target = 1
    /\ CountOf("update_progress", call.trace) = 1
    /\ Len(jobs[call.job_id].items) = 2
    /\ jobs[call.job_id].items[1].status = "failed"
    /\ jobs[call.job_id].items[2].status = "pending"
    /\ jobs[call.job_id].processed_items = 1

\* C15: no session is live when a /batch call returns, whatever its exit
\* path: every session the call acquired has been released.
C15_NoSessionLiveAfterBatch ==
    [][(call'.op = "batch")
        => /\ LiveAfter(call'.trace) = 0
           /\ CountOf("quit", call'.trace) >= SessionsAcquired(call'.trace)]_vars

\* a call acquired a session, its page load failed and its writes to the job
\* store raised; the session was released
C15_Witness ==
    /\ call.op = "batch"
    /\ call.code = 500
    /\ SessionsAcquired(call.trace) = 1
    /\ CountOf("get_failed", call.trace) = 1
    /\ CountOf("update_progress_failed", call.trace) = 2
    /\ LiveAfter(call.trace) = 0

\* a website that points outside the source directory
External(website) ==
    /\ website # NoUrl
    /\ ~InStr(<<"google.com">>, website)
    /\ ~InStr(<<"goo.gl">>, website)

\* the call tried to acquire a second session or looked an email up
WebsiteStageRan(t) ==
    \/ CountOf("setup_driver", t) + CountOf("setup_driver_failed", t) >= 2
    \/ CountOf("extract_email", t) > 0

\* C16: in a /batch call the website-page stage runs only if the listing-page
\* stage produced a website that points outside the source directory; when
\* that website is absent or points back into the source directory the call
\* acquires no second session and the email it reports and stores is absent.
C16_WebsiteStageOnlyForExternalSite ==
    [][(call'.op = "batch" /\ call'.target # 0)
        => /\ WebsiteStageRan(call'.trace) => External(call'.website)
           /\ ~External(call'.website)
                => /\ SessionsAcquired(call'.trace) <= 1
                   /\ call'.code = 200 => call'.results[1].email = None
                   /\ CountOf("ScrapedData.create", call'.trace) = 1
                        => records'[Len(records')].email = None]_vars

\* a call loaded the listing page, ended the stage without a website, took no
\* second session and stored a record without email
C16_Witness ==
    /\ call.op = "batch"
    /\ call.code = 200
    /\ CountOf("get", call.trace) = 1
    /\ call.website = NoUrl
    /\ SessionsAcquired(call.trace) = 1
    /\ CountOf("ScrapedData.create", call.trace) = 1
    /\ records[Len(records)].email = None

\* C17: in a /batch call whose listing page loaded, the three lookups (phone,
\* address, website) are all attempted, in that order, on the one page load,
\* even when a lookup raises; a field the call reports is absent or the value
\* its own lookup found; and the call does not mark the item failed on account
\* of a lookup: with its job store write served it completes the item.
C17_LookupFailuresAreIsolated ==
    [][(call'.op = "batch" /\ call'.target # 0
        /\ CountOf("get", call'.trace) = 1)
        => /\ \E p \in 1..Len(call'.trace) :
                /\ p + 4 <= Len(call'.trace)
                /\ SubSeq(call'.trace, p, p + 4)
                     = <<"get", "extract_phone", "extract_address",
                         "extract_website", "quit">>
           /\ call'.website \in {NoUrl, call'.page.website}
           /\ call'.code = 200
                => /\ call'.results[1].phone \in {None, call'.page.phone}
                   /\ call'.results[1].address \in {None, call'.page.address}
           /\ CountOf("update_progress_failed", call'.trace) = 0
                => /\ call'.code = 200
                   /\ jobs'[call'.job_id].items[call'.target].status
                        = "completed"]_vars

\* the lookups of a call raised on a page that showed a phone, an address and
\* a website; the call completed the item
C17_Witness ==
    /\ call.op = "batch"
    /\ call.code = 200
    /\ call.target # 0
    /\ call.page.phone # None
    /\ call.page.website = ExtSite
    /\ call.results[1].phone = None
    /\ CountOf("extract_website", call.trace) = 1
    /\ jobs[call.job_id].items[call.target].status = "completed"

\* no two rows of the table share an identity key (owner, name, locator)
KeysUnique(rows) ==
    \A a, b \in 1..Len(rows) :
        (/\ rows[a].user_id = rows[b].user_id
         /\ rows[a].company_name = rows[b].company_name
         /\ rows[a].website_url = rows[b].website_url) => a = b

\* C18: the record store holds at most one record per identity key after any
\* sequence of /init and /batch calls: no /init or /batch call takes a store
\* without two records of one key to a store with two.
C18_BatchKeepsKeysUnique ==
    [][(call'.op \in {"init", "batch"} /\ KeysUnique(records))
        => KeysUnique(records')]_vars

\* C19: ScrapedData.create fails, leaving the table as it was, when a record
\* with the same identity key exists: every row a step inserts has a key that
\* no earlier row of the table has.
C19_CreateFailsOnExistingKey ==
    [][\A i \in (Len(records) + 1)..Len(records') :
          KeyRows(SubSeq(records', 1, i - 1), records'[i].user_id,
                  records'[i].company_name, records'[i].website_url) = {}]_vars

\* C20: under a caller that keeps polling and stores that come to serve the
\* calls, every job eventually has status completed, from every state the job
\* can be in (so also for a caller that stopped polling and resumes later),
\* whatever items ended completed or failed.
C20_PolledJobCompletes ==
    \A j \in 1..MaxJobs :
        (j \in DOMAIN jobs) ~> (j \in DOMAIN jobs /\ jobs[j].status = "completed")

\* a job is completed with one item failed and one completed
C20_Witness ==
    \E j \in DOMAIN jobs :
        /\ jobs[j].status = "completed"
        /\ Len(jobs[j].items) = 2
        /\ jobs[j].items[1].status = "failed"
        /\ jobs[j].items[2].status = "completed"

\* every listing count the run observed is the same number
ConstantCounts(seen) == \A i, k \in 1..Len(seen) : seen[i] = seen[k]

\* C21: a run of scroll_results_panel with max_scrolls >= 3 that found the
\* panel, observed the same listing count in every iteration (zero included)
\* and had every scroll served executes at least 3 and at most max_scrolls
\* scroll operations.
C21_ConstantCountScrollsAtLeastThrice ==
    (/\ scroll.pc = "done"
     /\ scroll.panel
     /\ scroll.clean
     /\ scroll.max_scrolls >= 3
     /\ ConstantCounts(scroll.seen))
        => /\ scroll.executed >= 3
           /\ scroll.executed <= scroll.max_scrolls

\* a URL of Google Maps, and one of a single business (/maps/place/...)
IsGoogleMapsUrl(url) == InStr(<<"google.com", "/maps">>, url_lower(url))
IsDetailUrl(url) == InStr(<<"google.com", "/maps", "/place">>, url_lower(url))

\* C22: is_google_maps_search_url returns False for every single-business
\* URL of Google Maps, for every URL that is not of Google Maps, and for the
\* empty string and None.
C22_OnlySearchUrlsAreSearch ==
    (/\ detected.pc = "done"
     /\ \/ detected.url = NoUrl
        \/ IsDetailUrl(detected.url)
        \/ ~IsGoogleMapsUrl(detected.url))
        => detected.result = FALSE

\* the events of a call up to, and without, event i
Before(t, i) == SubSeq(t, 1, i - 1)

SessionUses ==
    {"get", "get_failed", "extract_phone", "extract_address",
     "extract_website", "extract_email"}

ListingSessionFailed ==
    /\ call'.op = "batch"
    /\ call'.target # 0
    /\ Len(call'.trace) >= 2
    /\ call'.trace[2] = "setup_driver_failed"

\* the record the call inserted has only its identity: no phone, address or
\* email, and the item's locator in the place of a website
BareRecord(r, item) ==
    /\ r.company_name = item.name
    /\ r.website_url = item.url
    /\ r.phone = None
    /\ r.address = None
    /\ r.email = None

\* C25 as stated: whenever the listing-page stage cannot acquire a session,
\* the call persists a record without phone, address, website and email,
\* completes the item, advances processed_items and runs no website stage.
C25_SessionFailureAlwaysPersistsAndCompletes ==
    [][ListingSessionFailed
        => /\ Len(records') = Len(records) + 1
           /\ BareRecord(records'[Len(records')],
                         jobs[call'.job_id].items[call'.target])
           /\ jobs'[call'.job_id].items[call'.target].status = "completed"
           /\ jobs'[call'.job_id].processed_items
                = jobs[call'.job_id].processed_items + 1
           /\ ~WebsiteStageRan(call'.trace)]_vars

\* C25 (amended): when the listing-page stage cannot acquire a session, the
\* call makes no page load and no lookup, runs no website stage, and goes on to
\* the record store probe; any record it inserts has no phone, address or
\* email and the item's locator as website; the call fails only if its job
\* store write raises, and with that write served it answers 200, completes
\* the item and adds one to processed_items.
C25_SessionFailureIsNotSurfaced ==
    [][ListingSessionFailed
        => /\ SessionsAcquired(call'.trace) = 0
           /\ \A i \in 1..Len(call'.trace) : call'.trace[i] \notin SessionUses
           /\ ~WebsiteStageRan(call'.trace)
           /\ call'.trace[3] = "check_existing_business"
           /\ call'.website = NoUrl
           /\ Len(records') # Len(records)
                => /\ Len(records') = Len(records) + 1
                   /\ CountOf("ScrapedData.create", call'.trace) = 1
                   /\ BareRecord(records'[Len(records')],
                                 jobs[call'.job_id].items[call'.target])
           /\ CountOf("update_progress_failed", call'.trace) = 0
                => /\ call'.code = 200
                   /\ jobs'[call'.job_id].items[call'.target].status
                        = "completed"
                   /\ jobs'[call'.job_id].processed_items
                        = jobs[call'.job_id].processed_items + 1
           /\ call'.code # 200
                => CountOf("update_progress_failed", call'.trace) >= 1]_vars

\* a call whose listing-page session could not be acquired inserted a record
\* without contact fields and completed its item
C25_Witness ==
    /\ call.op = "batch"
    /\ call.code = 200
    /\ call.target # 0
    /\ Pos("setup_driver_failed", call.trace) = 2
    /\ CountOf("ScrapedData.create", call.trace) = 1
    /\ Len(records) >= 1
    /\ BareRecord(records[Len(records)], jobs[call.job_id].items[call.target])
    /\ jobs[call.job_id].items[call.target].status = "completed"

\* a /batch call of the owner loaded job j, which is not completed and has no
\* pending item
LoadedWithNothingPending(j) ==
    /\ OwnerCall(j)
    /\ Len(call'.trace) >= 1
    /\ call'.trace[1] = "find_by_id"
    /\ jobs[j].status # "completed"
    /\ LeastPending(jobs[j].items) = 0

\* C26 as stated: a /batch call that finds no pending item in a job that is
\* not yet completed always sets the status to completed, persists it and
\* returns completed = true, leaving processed_items, the items and the
\* records unchanged and acquiring no session.
C26_NothingPendingAlwaysCompletes ==
    [][\A j \in DOMAIN jobs :
        LoadedWithNothingPending(j)
            => /\ jobs'[j].status = "completed"
               /\ call'.code = 200
               /\ call'.completed = "True"
               /\ jobs'[j].processed_items = jobs[j].processed_items
               /\ jobs'[j].items = jobs[j].items
               /\ records' = records
               /\ SessionsAcquired(call'.trace) = 0]_vars

\* C26 (amended): a /batch call that finds no pending item in a job that is
\* not yet completed acquires no session and leaves processed_items, the
\* items and the records unchanged; when its job store write is served it
\* sets the status to completed and returns completed = true, and when that
\* write raises it answers 500 and the job stays as it was.
C26_NothingPendingCompletesWhenWritten ==
    [][\A j \in DOMAIN jobs :
        LoadedWithNothingPending(j)
            => /\ call'.target = 0
               /\ jobs'[j].processed_items = jobs[j].processed_items
               /\ jobs'[j].items = jobs[j].items
               /\ records' = records
               /\ SessionsAcquired(call'.trace) = 0
               /\ CountOf("setup_driver_failed", call'.trace) = 0
               /\ \/ /\ call'.trace = <<"find_by_id", "update_progress">>
                     /\ jobs'[j] = [jobs[j] EXCEPT !.status = "completed"]
                     /\ call'.code = 200
                     /\ call'.completed = "True"
                  \/ /\ call'.trace = <<"find_by_id", "update_progress_failed">>
                     /\ jobs'[j] = jobs[j]
                     /\ call'.code = 500]_vars

\* a call found every item of a job terminal, one of them failed, and wrote
\* the status completed
C26_Witness ==
    /\ call.op = "batch"
    /\ call.code = 200
    /\ call.target = 0
    /\ call.trace = <<"find_by_id", "update_progress">>
    /\ jobs[call.job_id].status = "completed"
    /\ \E i \in 1..Len(jobs[call.job_id].items) :
          jobs[call.job_id].items[i].status = "failed"

(***************************************************************************)
(* Overlapping /batch calls.  A call touches the two tables four times:    *)
(* find_by_id, the probe's find_by_user_id, the INSERT and update_progress *)
(* (once more in the handler of the outer except).  Each access is one     *)
(* step; what a call holds between its steps is in inflight.               *)
(***************************************************************************)
\* calls that can be in flight at once
MaxCalls == 2

Callers == 1..MaxCalls

\* pc: the next access of the call; job: <<the job as find_by_id returned
\* it>>; target_idx: target_idx + 1, 0 for None; data: <<business_data>>
Idle ==
    [pc |-> "idle", user_id |-> 0, job_id |-> 0, job |-> <<>>,
     target_idx |-> 0, data |-> <<>>]

LoadAdmitted_OnePerJob(c, job_id) ==
    \A d \in Callers \ {c} :
        inflight[d].pc = "idle" \/ inflight[d].job_id # job_id

\* find_by_id is a plain SELECT and update_progress a plain UPDATE by id: no
\* lock is taken and no version is compared, whatever other calls hold
LoadAdmitted(c, job_id) == TRUE

\* find_by_id, the completed check and the scan for the target
BatchLoad(c) ==
    /\ inflight[c].pc = "idle"
    /\ \E user_id \in Users, job_id \in 1..MaxJobs, findOk \in BOOLEAN :
        LET found == SearchJob_find_by_id(jobs, job_id, user_id, findOk)
        IN  /\ LoadAdmitted(c, job_id)
            /\ inflight' =
                 IF found = <<>> \/ AlreadyCompleted(found[1])
                 THEN inflight
                 ELSE [inflight EXCEPT ![c] =
                        [pc |-> IF FirstPending(found[1].items) = 0
                                THEN "finish" ELSE "loaded",
                         user_id |-> user_id, job_id |-> job_id,
                         job |-> found,
                         target_idx |-> FirstPending(found[1].items),
                         data |-> <<>>]]
    /\ UNCHANGED <<jobs, records, call, scroll, detected, discovery>>

\* no pending item in the job that was read: the write of line 1236
BatchFinish(c) ==
    /\ inflight[c].pc = "finish"
    /\ \E updOk \in BOOLEAN :
        jobs' = IF updOk /\ inflight[c].job_id \in DOMAIN jobs
                THEN CompleteJob(jobs, inflight[c].job_id, inflight[c].job[1])
                ELSE jobs
    /\ inflight' = [inflight EXCEPT ![c] = Idle]
    /\ UNCHANGED <<records, call, scroll, detected, discovery>>

\* the two stages, which touch no table, and the probe for an existing row
BatchProbe(c) ==
    /\ inflight[c].pc = "loaded"
    /\ \E maps \in MapsStageRuns, skip_email \in BOOLEAN, probeOk \in BOOLEAN :
        \E mail \in EmailStageRuns(skip_email, maps.website) :
            LET job == inflight[c].job[1]
                business_data ==
                    BusinessData(inflight[c].user_id, job,
                                 job.items[inflight[c].target_idx], maps, mail)
                existing ==
                    check_existing_business(records, inflight[c].user_id,
                        business_data.company_name, business_data.website_url,
                        probeOk)
            IN  inflight' = [inflight EXCEPT ![c] =
                    [@ EXCEPT !.pc = IF ShouldCreate(existing) THEN "insert"
                                     ELSE "save",
                              !.data = <<business_data>>]]
    /\ UNCHANGED <<jobs, records, call, scroll, detected, discovery>>

\* ScrapedData.create; its error is swallowed
BatchInsert(c) ==
    /\ inflight[c].pc = "insert"
    /\ \E createOk \in BOOLEAN :
        /\ records' = IF createOk
                      THEN ScrapedData_create(records, inflight[c].data[1])
                      ELSE records
        /\ Len(records') <= MaxRecords
    /\ inflight' = [inflight EXCEPT ![c].pc = "save"]
    /\ UNCHANGED <<jobs, call, scroll, detected, discovery>>

SavedItems_TargetOnly(f) ==
    <<[f.job[1].items[f.target_idx] EXCEPT !.status = "completed"]>>

\* the items the call writes on its success path: the items it read, with
\* its target completed
SavedItems(f) == SetStatus(f.job[1].items, f.target_idx, "completed")

\* update_progress of the success path
BatchSave(c) ==
    /\ inflight[c].pc = "save"
    /\ \E updOk \in BOOLEAN :
        LET job == inflight[c].job[1]
            new_processed_count == NewProcessedCount(job)
        IN  IF updOk
            THEN /\ jobs' = update_progress(jobs, inflight[c].job_id,
                                new_processed_count, SavedItems(inflight[c]),
                                ProgressStatus(new_processed_count, job))
                 /\ inflight' = [inflight EXCEPT ![c] = Idle]
            ELSE /\ jobs' = jobs
                 /\ inflight' = [inflight EXCEPT ![c].pc = "except"]
    /\ UNCHANGED <<records, call, scroll, detected, discovery>>

\* update_progress of the handler of the outer except; its error is swallowed
BatchExcept(c) ==
    /\ inflight[c].pc = "except"
    /\ \E updOk \in BOOLEAN :
        LET job == inflight[c].job[1]
        IN  jobs' = IF updOk
                    THEN update_progress(jobs, inflight[c].job_id,
                            FailedProcessedCount(job),
                            SetStatus(SavedItems(inflight[c]),
                                      inflight[c].target_idx, "failed"),
                            FailedStatus(job))
                    ELSE jobs
    /\ inflight' = [inflight EXCEPT ![c] = Idle]
    /\ UNCHANGED <<records, call, scroll, detected, discovery>>

\* before the first request: empty tables, no call in flight
ConcInit ==
    /\ jobs = <<>>
    /\ records = <<>>
    /\ call = NoCall
    /\ scroll = NoScroll
    /\ detected = NoDetection
    /\ inflight = [c \in Callers |-> Idle]
    /\ discovery = NoDiscovery

ConcNext ==
    \/ InitSearchJob
    \/ \E c \in Callers : BatchLoad(c)
    \/ \E c \in Callers : BatchFinish(c)
    \/ \E c \in Callers : BatchProbe(c)
    \/ \E c \in Callers : BatchInsert(c)
    \/ \E c \in Callers : BatchSave(c)
    \/ \E c \in Callers : BatchExcept(c)

ConcSpec == ConcInit /\ [][ConcNext]_vars

\* the calls in flight
InFlight == {c \in DOMAIN inflight : inflight[c].pc # "idle"}

\* C30: a call is admitted and selects its target from the persisted job
\* alone: while a call is idle and a job has a pending item and is not
\* completed, the call can load that job and select its first pending item,
\* whatever the other calls in flight hold; so two calls in flight can hold
\* the same target.
C30_LoadNeverWaitsForOtherCalls ==
    \A c \in DOMAIN inflight : \A j \in DOMAIN jobs :
        (/\ inflight[c].pc = "idle"
         /\ jobs[j].status # "completed"
         /\ LeastPending(jobs[j].items) # 0)
            => ENABLED (/\ BatchLoad(c)
                        /\ inflight'[c].pc = "loaded"
                        /\ inflight'[c].job_id = j
                        /\ inflight'[c].target_idx = LeastPending(jobs[j].items))

\* two calls in flight loaded the same job before either saved it and hold
\* the same pending item as their target
C30_Witness ==
    \E c, d \in DOMAIN inflight :
        /\ c # d
        /\ inflight[c].pc \in {"loaded", "insert", "save"}
        /\ inflight[d].pc \in {"loaded", "insert", "save"}
        /\ inflight[c].job_id = inflight[d].job_id
        /\ inflight[c].target_idx = inflight[d].target_idx
        /\ inflight[c].target_idx # 0
        /\ inflight[c].job = <<jobs[inflight[c].job_id]>>
        /\ inflight[d].job = <<jobs[inflight[d].job_id]>>
        /\ jobs[inflight[c].job_id].items[inflight[c].target_idx].status
             = "pending"

\* call c takes the step
Steps(c) == inflight'[c] # inflight[c]

\* the step leaves what identifies job j and its items as it was
IdentityKept(j) ==
    /\ j \in DOMAIN jobs'
    /\ jobs'[j].user_id = jobs[j].user_id
    /\ jobs'[j].search_url = jobs[j].search_url
    /\ jobs'[j].total_items = jobs[j].total_items
    /\ Len(jobs'[j].items) = Len(jobs[j].items)
    /\ \A i \in 1..Len(jobs[j].items) :
          /\ jobs'[j].items[i].name = jobs[j].items[i].name
          /\ jobs'[j].items[i].url = jobs[j].items[i].url

\* the items of job j whose persisted status the step changes
StatusChanged(j) ==
    {i \in 1..Len(jobs[j].items) :
        jobs'[j].items[i].status # jobs[j].items[i].status}

RecordWrites == {"ScrapedData.create", "ScrapedData.create_failed"}
JobWriteTries == {"update_progress", "update_progress_failed"}

\* C28: in every /batch call that runs extraction, the probe and the INSERT
\* of the record come before every write to the job; a call that completes
\* its item attempted the INSERT or found the record present; and when the
\* call ends between the two writes (no job write is served) the job is as it
\* was, the item pending, with the inserted record in the table.
C28_RecordIsWrittenBeforeTheItemFlips ==
    [][(call'.op = "batch" /\ call'.target # 0)
        => LET t == call'.trace
               j == call'.job_id
               item == jobs[j].items[call'.target]
           IN  /\ Pos("check_existing_business", t) # 0
               /\ \A w \in 1..Len(t) : t[w] \in JobWriteTries
                    => /\ Pos("check_existing_business", t) < w
                       /\ \A k \in 1..Len(t) : t[k] \in RecordWrites => k < w
               /\ jobs'[j].items[call'.target].status = "completed"
                    => \/ \E k \in 1..Len(t) : t[k] \in RecordWrites
                       \/ KeyRows(records, call'.user_id, item.name, item.url)
                            # {}
               /\ CountOf("update_progress", t) = 0
                    => /\ jobs' = jobs
                       /\ item.status = "pending"
                       /\ CountOf("ScrapedData.create", t) = 1
                            => KeyRows(records', call'.user_id, item.name,
                                       item.url) # {}]_vars

\* a call inserted the record of its item and ended before any write to the
\* job was served: the item is still pending and its record is in the table
C28_Witness ==
    /\ call.op = "batch"
    /\ call.target # 0
    /\ CountOf("ScrapedData.create", call.trace) = 1
    /\ CountOf("update_progress", call.trace) = 0
    /\ jobs[call.job_id].items[call.target].status = "pending"
    /\ KeyRows(records, call.user_id,
               jobs[call.job_id].items[call.target].name,
               jobs[call.job_id].items[call.target].url) # {}

\* C29: a /batch call that answers 200 reports what it persisted: completed
\* is true exactly when the persisted status of the job is completed, and
\* when the call processed an item, processed is the persisted
\* processed_items and total the job's total_items.
C29_ReplyCountersArePersisted ==
    [][(call'.op = "batch" /\ call'.code = 200)
        => LET j == call'.job_id
           IN  /\ (call'.completed = "True")
                    <=> (jobs'[j].status = "completed")
               /\ call'.target # 0
                    => /\ call'.processed = jobs'[j].processed_items
                       /\ call'.total = jobs'[j].total_items
                       /\ call'.completed \in {"True", "False"}]_vars

\* a call completed the first of two items and answered processed 1 of 2,
\* not completed, which is what the job holds
C29_Witness ==
    /\ call.op = "batch"
    /\ call.code = 200
    /\ call.target = 1
    /\ call.processed = 1
    /\ call.total = 2
    /\ call.completed = "False"
    /\ jobs[call.job_id].processed_items = 1
    /\ jobs[call.job_id].status = "active"

\* call c holds a snapshot of its job that another call's write has since
\* replaced
Overtaken(c) ==
    /\ inflight[c].pc # "idle"
    /\ inflight[c].job # <<jobs[inflight[c].job_id]>>

\* C31: however /batch calls on a job overlap, in every persisted state of
\* the job processed_items equals the number of its items that are not
\* pending: each write stores the counter and the item list of one snapshot.
C31_OverlapKeepsCounterAndItemsTogether ==
    \A j \in DOMAIN jobs :
        jobs[j].processed_items = NonPending(jobs[j].items)

\* a job has been written by one call while another call, which loaded it
\* before that write, is still about to write it
C31_Witness ==
    \E c \in DOMAIN inflight :
        /\ Overtaken(c)
        /\ inflight[c].pc \in {"save", "except"}
        /\ jobs[inflight[c].job_id].processed_items >= 1

\* C32: in every interleaving of overlapping /batch calls, no step takes the
\* persisted status of an item from completed or failed back to pending, and
\* no step lowers the persisted processed_items.
C32_OverlapNeverRevertsItems ==
    [][\A j \in DOMAIN jobs :
        /\ j \in DOMAIN jobs'
        /\ jobs'[j].processed_items >= jobs[j].processed_items
        /\ \A i \in 1..Len(jobs[j].items) :
              jobs[j].items[i].status # "pending"
                => jobs'[j].items[i].status # "pending"]_vars

\* C33: in every interleaving, once the persisted status of a job is
\* completed no step sets it to anything else.
C33_CompletedIsAbsorbingUnderOverlap ==
    [][\A j \in DOMAIN jobs :
        jobs[j].status = "completed"
            => /\ j \in DOMAIN jobs'
               /\ jobs'[j].status = "completed"]_vars

\* the place of a job status in the order pending, active, completed
StatusRank(status) ==
    CASE status = "pending" -> 1
      [] status = "active" -> 2
      [] status = "completed" -> 3
      [] OTHER -> 0

\* C34: under sequential calls the persisted status of a job is pending,
\* active or completed, is pending exactly while processed_items = 0 and
\* active exactly while 0 < processed_items < total_items, and no step moves
\* it backwards.
C34_StatusFollowsTheCounter ==
    [][\A j \in DOMAIN jobs' :
        /\ jobs'[j].status \in {"pending", "active", "completed"}
        /\ (jobs'[j].status = "pending") <=> (jobs'[j].processed_items = 0)
        /\ (jobs'[j].status = "active")
              <=> /\ 0 < jobs'[j].processed_items
                  /\ jobs'[j].processed_items < jobs'[j].total_items
        /\ j \in DOMAIN jobs
              => StatusRank(jobs'[j].status) >= StatusRank(jobs[j].status)]_vars

\* C35: for every sequence of observed listing counts and every
\* max_scrolls >= 0, scroll_results_panel never executes more than
\* max_scrolls scroll operations, and its loop terminates.
C35_ScrollLoopIsBoundedAndEnds ==
    /\ [](/\ scroll.executed <= scroll.max_scrolls
          /\ scroll.scroll_attempt <= scroll.max_scrolls)
    /\ <>(scroll.pc = "done")

\* a run in which the count changed often enough to keep the loop going
\* ended at the limit, with max_scrolls scroll operations executed
C35_Witness ==
    /\ scroll.pc = "done"
    /\ scroll.panel
    /\ scroll.clean
    /\ scroll.max_scrolls = MaxScrolls
    /\ scroll.executed = scroll.max_scrolls
    /\ scroll.consecutive_no_change < StopAfter

(***************************************************************************)
(* extract_businesses_with_names: the loop over the business containers    *)
(* and the validation of the URLs.  A container is what the page gives for *)
(* it: its href (NoUrl when no link is found), its name, and whether a     *)
(* lookup in it raises (a stale element, say).                             *)
(***************************************************************************)
\* the most containers a results page holds
MaxContainers == 3

PlaceHref(scheme, id) == <<scheme, "google.com", "/maps", "/place/", id>>

Hrefs ==
    {NoUrl,
     PlaceHref("https://", "A"),
     PlaceHref("https://", "A") \o <<"?", "hl=en">>,
     PlaceHref("https://", "A") \o <<"?", "hl=fr">>,
     PlaceHref("https://", "B"),
     PlaceHref("intent://", "C"),
     <<"https://", "google.com", "/maps", "/search/", "cafes">>}

Containers ==
    {[href |-> h, name |-> n, raises |-> r] :
        h \in Hrefs, n \in {"Cafe", "Unknown Business"}, r \in BOOLEAN}

\* `'/maps/place/' in href`
IsPlaceHref(href) == InStr(<<"/maps", "/place/">>, href)

base_url_Whole(href) == href

\* `href.split('?')[0] if '?' in href else href`
base_url(href) ==
    IF Pos("?", href) # 0 THEN SubSeq(href, 1, Pos("?", href) - 1) ELSE href

\* re.match(r'^https?:\/\/', url)
url_pattern(url) == url # NoUrl /\ url[1] \in {"http://", "https://"}

\* the locals of the function before the loop over business_containers
DiscoveryEntry(containers) ==
    [pc |-> "loop", containers |-> containers, k |-> 1,
     businesses |-> <<>>, seen_urls |-> {}, result |-> <<>>]

\* the body of `for container in business_containers` for container k
discover_container(d) ==
    LET container == d.containers[d.k]
        next == [d EXCEPT !.k = @ + 1]
    IN  IF container.raises THEN next
        ELSE IF container.href = NoUrl \/ ~IsPlaceHref(container.href)
        THEN next
        ELSE IF base_url(container.href) \in d.seen_urls THEN next
        ELSE [next EXCEPT
                !.seen_urls = @ \cup {base_url(container.href)},
                !.businesses = Append(@, [name |-> container.name,
                                          url |-> container.href])]

\* the validation loop and the return
validated_businesses(businesses) ==
    SelectSeq(businesses, LAMBDA business : url_pattern(business.url))

DiscoverContainer ==
    /\ discovery.pc = "loop"
    /\ discovery.k <= Len(discovery.containers)
    /\ discovery' = discover_container(discovery)
    /\ UNCHANGED <<jobs, records, call, scroll, detected, inflight>>

DiscoverReturn ==
    /\ discovery.pc = "loop"
    /\ discovery.k > Len(discovery.containers)
    /\ discovery' = [discovery EXCEPT
                        !.pc = "done",
                        !.result = validated_businesses(discovery.businesses)]
    /\ UNCHANGED <<jobs, records, call, scroll, detected, inflight>>

DiscInit ==
    /\ jobs = <<>>
    /\ records = <<>>
    /\ call = NoCall
    /\ scroll = NoScroll
    /\ detected = NoDetection
    /\ inflight = NoFlights
    /\ discovery \in {DiscoveryEntry(containers) :
                        containers \in SeqsUpTo(Containers, MaxContainers)}

DiscNext == DiscoverContainer \/ DiscoverReturn

DiscSpec == DiscInit /\ [][DiscNext]_vars

\* the URL without its query string
StripQuery(url) ==
    IF \E i \in 1..Len(url) : url[i] = "?"
    THEN SubSeq(url, 1, (CHOOSE i \in 1..Len(url) :
                            url[i] = "?" /\ \A k \in 1..(i - 1) : url[k] # "?") - 1)
    ELSE url

\* the containers that show a listing URL
ListingContainers(cs) ==
    {k \in 1..Len(cs) : cs[k].href # NoUrl /\ IsPlaceHref(cs[k].href)}

\* the containers, among ks, that show url up to its query string
SameListing(cs, ks, url) ==
    {k \in ks : StripQuery(cs[k].href) = StripQuery(url)}

Least(ks) == CHOOSE k \in ks : \A m \in ks : k <= m

\* the returned entries are distinct up to the query string, start with
\* http:// or https://, and entry i is the entry of the first container, among
\* ks, of its listing, the entries being in the order of these containers
DedupedFrom(result, cs, ks) ==
    /\ \A i, j \in 1..Len(result) :
          i # j => StripQuery(result[i].url) # StripQuery(result[j].url)
    /\ \A i \in 1..Len(result) :
          /\ result[i].url[1] \in {"http://", "https://"}
          /\ SameListing(cs, ks, result[i].url) # {}
          /\ result[i].url
                = cs[Least(SameListing(cs, ks, result[i].url))].href
    /\ \A i, j \in 1..Len(result) :
          i < j => Least(SameListing(cs, ks, result[i].url))
                     < Least(SameListing(cs, ks, result[j].url))

\* C36 as stated: the list returned by discovery holds no two entries with
\* the same URL up to the query string, every URL starts with http:// or
\* https://, entries are in first-seen order and each carries the first URL
\* seen on the page for its base URL.
C36_DiscoveryKeepsFirstUrlSeen ==
    discovery.pc = "done"
        => DedupedFrom(discovery.result, discovery.containers,
                       ListingContainers(discovery.containers))

\* C36 (amended): the same, where the first URL seen for a base URL is that
\* of the first container whose lookups did not raise.
C36_DiscoveryKeepsFirstUrlRead ==
    discovery.pc = "done"
        => DedupedFrom(discovery.result, discovery.containers,
                       {k \in ListingContainers(discovery.containers) :
                            ~discovery.containers[k].raises})

\* a page showed one listing under two URLs that differ in the query string,
\* then another listing: two entries are returned, the first with the URL
\* seen first
C36_Witness ==
    /\ discovery.pc = "done"
    /\ Len(discovery.containers) = 3
    /\ \A k \in 1..3 : ~discovery.containers[k].raises
    /\ discovery.containers[1].href # discovery.containers[2].href
    /\ StripQuery(discovery.containers[1].href)
         = StripQuery(discovery.containers[2].href)
    /\ Len(discovery.result) = 2
    /\ discovery.result[1].url = discovery.containers[1].href
    /\ discovery.result[2].url = discovery.containers[3].href

\* the URL under which a /batch call keys the record of its target
KeyUrl(website, item) ==
    IF FinalWebsite(website) # NoUrl THEN FinalWebsite(website) ELSE item.url

\* C37: the probe of a /batch call finds a record (and the call therefore
\* attempts no INSERT) if and only if the table holds a row of the caller with
\* the company_name and website_url of the target, whether or not the read of
\* the table is served.
C37_ProbeFindsExactlyTheStoredKey ==
    [][(call'.op = "batch" /\ call'.target # 0)
        => LET item == jobs[call'.job_id].items[call'.target]
           IN  (\A k \in 1..Len(call'.trace) : call'.trace[k] \notin RecordWrites)
                  <=> KeyRows(records, call'.user_id, item.name,
                              KeyUrl(call'.website, item)) # {}]_vars

\* C38: a /sync-data call adds at most one row for a key it is given, however
\* often the key occurs in its list, and none for a key that is in the table
\* already; a call whose businesses are all in the table already answers
\* synced_count = 0.
C38_SyncIsIdempotent ==
    [][(call'.op = "sync" /\ call'.code = 200)
        => \A e \in SyncEntries :
              LET before == KeyRows(records, call'.user_id, e.company_name,
                                    e.website_url)
                  after == KeyRows(records', call'.user_id, e.company_name,
                                   e.website_url)
              IN  /\ Cardinality(after) <= Cardinality(before) + 1
                  /\ before # {} => /\ after = before
                                    /\ call'.processed = 0]_vars

====
